---- MODULE Spec2Model ----
(***************************************************************************)
(* Model of the rag_bible retrieval core.                                  *)
(*                                                                         *)
(*   search            rag/retrieve.py   two-stage retrieval               *)
(*   normalize_scores  rag/retrieve.py   logistic sigmoid                  *)
(*   get_verse_context app.py            book-bounded context window       *)
(*   lifespan          app.py            reverse index construction        *)
(*                                                                         *)
(* Strings are sequences of one-character strings.  Python positions are   *)
(* kept 0-based; PyGetItem translates them to TLA+ sequence indices.       *)
(* Floating-point scores are fixed-point integers in units of 1/Scale.     *)
(***************************************************************************)
EXTENDS Integers, Sequences, FiniteSets, Bags, TLC

VARIABLES
    mapping,        \* list of verse records (pipeline["mapping"])
    query,          \* search(): parameter query
    faiss_top_k,    \* search(): parameter faiss_top_k
    rerank_top_k,   \* search(): parameter rerank_top_k
    pc,             \* search(): position ("start", "encoded", "searched", "done", "raised", "idle")
    query_clean,    \* search(): local query_clean
    indices,        \* search(): local candidate_indices (row 0 of index.search)
    candidates,     \* search(): local candidates
    pairs,          \* search(): local pairs
    raw_scores,     \* search(): local raw_scores
    scored,         \* search(): local scored, as built by the loop (before the sort)
    result,         \* search(): returned list
    exc,            \* search(): exception that left search ("none" when none did)
    calls,          \* capability calls made by search, in order, each with its outcome
    verse_index,    \* reverse index (pipeline["verse_index"])
    ctx_result,     \* get_verse_context(): parameter result
    ctx_n,          \* get_verse_context(): parameter n
    ctx_pc,         \* get_verse_context(): position ("call", "returned", "raised", "idle")
    ctx,            \* get_verse_context(): locals and returned list at return
    fn_call,        \* a call of a pure function: its name and arguments
    fn_ret,         \* what that call returned (NoReturn until it has)
    pipeline,       \* app.pipeline, the module-level dict filled by lifespan
    req,            \* search_endpoint(): the locals of each request in flight
    lifespan_pc     \* lifespan(): position ("start", "populated", "indexed", "serving", "stopped", "idle")

searchVars == <<query, faiss_top_k, rerank_top_k, pc, query_clean, indices,
                candidates, pairs, raw_scores, scored, result, exc, calls>>
ctxVars == <<verse_index, ctx_result, ctx_n, ctx_pc, ctx>>
fnVars == <<fn_call, fn_ret>>
srvVars == <<pipeline, req, lifespan_pc>>
vars == <<mapping, searchVars, ctxVars, fnVars, srvVars>>

----------------------------------------------------------------------------
(* Bounds of the model *)

MaxMapLen == 2      \* longest mapping a search runs against
MaxTopK == 2        \* largest faiss_top_k / rerank_top_k
MaxRaw == 1         \* raw reranker scores range over -8*MaxRaw .. 8*MaxRaw
Scale == 1000       \* fixed-point resolution: 1.0 is Scale
MaxCtxLen == 3      \* longest mapping a context window is cut from
MaxN == 2           \* largest n of get_verse_context
MaxDbLen == 3       \* most verses in the database read by ingestion
MaxConcLen == 1     \* longest mapping served to two concurrent requests
MaxLogit == 12      \* raw scores handed to normalize_scores range over -MaxLogit..MaxLogit
MaxBatch == 2       \* longest array handed to normalize_scores
MaxQueryLen == 3    \* longest raw query (or tail of a long raw query) drawn freely

(* Program constants *)

QUERY_PREFIX == <<>>
MAX_QUERY_LENGTH == 300
MIN_TEXT_LENGTH == 10
FAISS_TOP_K == 20
RERANK_TOP_K == 5
MIN_WORD_COUNT == 3
RELEVANCE_THRESHOLD == 0
CONTEXT_VERSES == 2

----------------------------------------------------------------------------
(* Helpers *)

Min(a, b) == IF a <= b THEN a ELSE b
Max(a, b) == IF a >= b THEN a ELSE b
Range(s) == {s[i] : i \in DOMAIN s}
SeqsUpTo(S, n) == UNION {[1..k -> S] : k \in 0..n}
BagOfSeq(s) == [x \in Range(s) |-> Cardinality({i \in DOMAIN s : s[i] = x})]

\* Python list indexing seq[i]: 0-based, negative positions count from the
\* end, anything else raises IndexError.
IndexError == [exc |-> "IndexError"]
PyGetItem(seq, i) ==
    IF 0 <= i /\ i < Len(seq) THEN seq[i + 1]
    ELSE IF i < 0 /\ -i <= Len(seq) THEN seq[Len(seq) + i + 1]
    ELSE IndexError

\* Python slice seq[:k].
PySlicePrefix(seq, k) ==
    IF k >= 0 THEN SubSeq(seq, 1, Min(k, Len(seq)))
    ELSE SubSeq(seq, 1, Max(Len(seq) + k, 0))

\* str.replace("\n", " ")
ReplaceNewlines(s) == [i \in DOMAIN s |-> IF s[i] = "\n" THEN " " ELSE s[i]]

----------------------------------------------------------------------------
(* Verse records *)

BookIds == {1, 2}
BookTitle(b) == IF b = 1 THEN "BookA" ELSE "BookB"
BookChapter(b) == IF b = 1 THEN "1" ELSE "2"
Verses == {"", "1"}
TextPlain == <<"a">>
TextMultiline == <<"a", "\n", "b">>
Texts == {TextPlain, TextMultiline}

Entry(b, v, t) ==
    [book_id |-> b, book_title |-> BookTitle(b), chapter |-> BookChapter(b),
     verse |-> v, text |-> t]
Entries == {Entry(b, v, t) : b \in BookIds, v \in Verses, t \in Texts}

\* The verses a search runs against: a single-line verse of one book and a
\* multi-line, unnumbered verse of another.
SearchEntries == {Entry(1, "1", TextPlain), Entry(2, "", TextMultiline)}
Queries == {<<"q">>, <<"q", "\n", "r">>}

----------------------------------------------------------------------------
(* normalize_scores: 1.0 / (1.0 + np.exp(-raw_scores)) in fixed point *)

Inf == 0 - 1

\* e^k for k >= 0, in units of 1/Scale; overflows to Inf as np.exp does.
RECURSIVE ExpPos(_)
ExpPos(k) ==
    IF k = 0 THEN Scale
    ELSE LET p == ExpPos(k - 1)
         IN  IF p = Inf \/ p > 700000 THEN Inf ELSE (p * 2718) \div 1000

\* e^(-k) for k >= 0, in units of 1/Scale; underflows to 0 as np.exp does.
RECURSIVE ExpNeg(_)
ExpNeg(k) ==
    IF k = 0 THEN Scale ELSE (ExpNeg(k - 1) * 1000) \div 2718

\* np.exp(-x)
NpExpOfNegWrongSign(x) == IF x >= 0 THEN ExpPos(x) ELSE ExpNeg(-x)
NpExpOfNeg(x) == IF x <= 0 THEN ExpPos(-x) ELSE ExpNeg(x)

SigmoidIdentity(x) == x * Scale
Sigmoid(x) ==
    LET e == NpExpOfNeg(x)
    IN  IF e = Inf THEN 0 ELSE (Scale * Scale) \div (Scale + e)

\* The arithmetic of line 28 is broadcast over the array, element by element.
NormalizeMinMax(raw) ==
    LET lo == CHOOSE x \in Range(raw) : \A y \in Range(raw) : x <= y
        hi == CHOOSE x \in Range(raw) : \A y \in Range(raw) : x >= y
    IN  [i \in DOMAIN raw |->
            IF hi = lo THEN Scale \div 2 ELSE ((raw[i] - lo) * Scale) \div (hi - lo)]
normalize_scores(raw) == [i \in DOMAIN raw |-> Sigmoid(raw[i])]

\* Raw reranker logits handed back by cross_encoder.predict: 0, and values
\* large enough for the sigmoid to saturate.
RawScores == {8 * r : r \in -MaxRaw..MaxRaw}

----------------------------------------------------------------------------
(* search: operators *)

\* query_clean = (config.QUERY_PREFIX + query).replace("\n", " ")
QueryCleanRaw(q) == QUERY_PREFIX \o q
QueryClean(q) == ReplaceNewlines(QUERY_PREFIX \o q)

\* The guard of the candidate loop: 0 <= idx_int < len(mapping)
InRangeNoLower(idx_int, map) == idx_int < Len(map)
InRangeOffByOne(idx_int, map) == 0 <= idx_int /\ idx_int <= Len(map)
InRange(idx_int, map) == 0 <= idx_int /\ idx_int < Len(map)

\* One tuple (idx_int, text_clean, entry) of the candidate loop; IndexError
\* when mapping[idx_int] raises.
Candidate(map, idx_int) ==
    LET entry == PyGetItem(map, idx_int)
    IN  IF entry = IndexError THEN IndexError
        ELSE [idx |-> idx_int, text_clean |-> ReplaceNewlines(entry.text),
              entry |-> entry]

\* The candidate loop over candidate_indices.
RECURSIVE Candidates(_, _)
Candidates(ind, map) ==
    IF ind = <<>> THEN <<>>
    ELSE IF InRange(Head(ind), map)
         THEN <<Candidate(map, Head(ind))>> \o Candidates(Tail(ind), map)
         ELSE Candidates(Tail(ind), map)

\* pairs = [[query_clean, c[1]] for c in candidates]
PairsReversed(qc, cands) ==
    [i \in DOMAIN cands |-> <<qc, cands[Len(cands) + 1 - i].text_clean>>]
Pairs(qc, cands) == [i \in DOMAIN cands |-> <<qc, cands[i].text_clean>>]

\* One search result dict built from a candidate and its normalized score.
ScoredEntryCleanText(c, s) ==
    [book_title |-> c.entry.book_title, chapter |-> c.entry.chapter,
     verse |-> c.entry.verse, text |-> c.text_clean, score |-> s]
ScoredEntry(c, s) ==
    [book_title |-> c.entry.book_title, chapter |-> c.entry.chapter,
     verse |-> c.entry.verse, text |-> c.entry.text, score |-> s]

\* The loop that builds scored from candidates and normalized.
ScoredMisaligned(cands, normalized) ==
    [i \in DOMAIN cands |-> ScoredEntry(cands[i], normalized[Len(cands) + 1 - i])]
Scored(cands, normalized) ==
    [i \in DOMAIN cands |-> ScoredEntry(cands[i], normalized[i])]

\* list.sort(key=score, reverse=True): stable, descending.  Each element is
\* inserted behind every element whose score is at least its own.
InsertBeforeEqual(sorted, x) ==
    LET k == Cardinality({i \in DOMAIN sorted : sorted[i].score > x.score})
    IN  SubSeq(sorted, 1, k) \o <<x>> \o SubSeq(sorted, k + 1, Len(sorted))
InsertStable(sorted, x) ==
    LET k == Cardinality({i \in DOMAIN sorted : sorted[i].score >= x.score})
    IN  SubSeq(sorted, 1, k) \o <<x>> \o SubSeq(sorted, k + 1, Len(sorted))

RECURSIVE StableSortDesc(_)
StableSortDesc(s) ==
    IF s = <<>> THEN <<>>
    ELSE InsertStable(StableSortDesc(SubSeq(s, 1, Len(s) - 1)), s[Len(s)])

SortUnsorted(s) == s
SortByScore(s) == StableSortDesc(s)

\* scored.sort(...); return scored[:rerank_top_k]
SearchReturnTruncateFirst(sc, k) == SortByScore(PySlicePrefix(sc, k))
SearchReturnOneMore(sc, k) == PySlicePrefix(SortByScore(sc), k + 1)
SearchReturn(sc, k) == PySlicePrefix(SortByScore(sc), k)

----------------------------------------------------------------------------
(* search: one action per stretch of code between two capability calls *)

\* No pure-function call and no server in the specification at hand.
NoReturn == [returned |-> FALSE]
FnIdle ==
    /\ fn_call = <<>>
    /\ fn_ret = NoReturn
SrvIdle ==
    /\ pipeline = <<>>
    /\ req = <<>>
    /\ lifespan_pc = "idle"

CtxIdle ==
    /\ verse_index = <<>>
    /\ ctx_result = <<>>
    /\ ctx_n = 0
    /\ ctx_pc = "idle"
    /\ ctx = <<>>

InitSearch ==
    /\ mapping \in SeqsUpTo(SearchEntries, MaxMapLen)
    /\ query \in Queries
    /\ faiss_top_k \in 1..MaxTopK
    /\ rerank_top_k \in -1..MaxTopK
    /\ pc = "start"
    /\ query_clean = <<>>
    /\ indices = <<>>
    /\ candidates = <<>>
    /\ pairs = <<>>
    /\ raw_scores = <<>>
    /\ scored = <<>>
    /\ result = <<>>
    /\ exc = "none"
    /\ calls = <<>>
    /\ CtxIdle
    /\ FnIdle
    /\ SrvIdle

\* Lines 96-103: build query_clean and call embed_model.encode([query_clean]).
Encode ==
    /\ pc = "start"
    /\ query_clean' = QueryClean(query)
    /\ calls' = Append(calls, [cap |-> "encode", arg |-> <<QueryClean(query)>>, ok |-> TRUE])
    /\ pc' = "encoded"
    /\ UNCHANGED <<mapping, query, faiss_top_k, rerank_top_k, indices, candidates,
                   pairs, raw_scores, scored, result, exc, ctxVars, fnVars, srvVars>>

\* embed_model.encode raises: nothing in search catches it.
EncodeRaises ==
    /\ pc = "start"
    /\ query_clean' = QueryClean(query)
    /\ calls' = Append(calls, [cap |-> "encode", arg |-> <<QueryClean(query)>>, ok |-> FALSE])
    /\ pc' = "raised"
    /\ exc' = "encode"
    /\ UNCHANGED <<mapping, query, faiss_top_k, rerank_top_k, indices, candidates,
                   pairs, raw_scores, scored, result, ctxVars, fnVars, srvVars>>

\* Lines 105-114: index.search(query_embedding, faiss_top_k) returns
\* faiss_top_k positions (an index of another size than the mapping may return
\* any position; -1 pads missing neighbours), then the candidate loop.
IndexSearch ==
    /\ pc = "encoded"
    /\ \E ind \in [1..faiss_top_k -> -1..Len(mapping)] :
        LET cands == Candidates(ind, mapping)
        IN  /\ indices' = ind
            /\ IF \E i \in DOMAIN cands : cands[i] = IndexError
               THEN /\ pc' = "raised"
                    /\ exc' = "IndexError"
                    /\ candidates' = <<>>
               ELSE /\ pc' = "searched"
                    /\ exc' = exc
                    /\ candidates' = cands
    /\ calls' = Append(calls, [cap |-> "index.search", arg |-> faiss_top_k, ok |-> TRUE])
    /\ UNCHANGED <<mapping, query, faiss_top_k, rerank_top_k, query_clean,
                   pairs, raw_scores, scored, result, ctxVars, fnVars, srvVars>>

\* index.search raises.
IndexSearchRaises ==
    /\ pc = "encoded"
    /\ calls' = Append(calls, [cap |-> "index.search", arg |-> faiss_top_k, ok |-> FALSE])
    /\ pc' = "raised"
    /\ exc' = "index.search"
    /\ UNCHANGED <<mapping, query, faiss_top_k, rerank_top_k, query_clean, indices,
                   candidates, pairs, raw_scores, scored, result, ctxVars, fnVars, srvVars>>

\* Lines 116-133: build the pairs, call cross_encoder.predict(pairs) (one raw
\* score per pair), normalize, build scored, sort, truncate, return.
Predict ==
    /\ pc = "searched"
    /\ \E raw \in [1..Len(candidates) -> RawScores] :
        /\ raw_scores' = raw
        /\ scored' = Scored(candidates, normalize_scores(raw))
        /\ result' = SearchReturn(Scored(candidates, normalize_scores(raw)),
                                  rerank_top_k)
    /\ pairs' = Pairs(query_clean, candidates)
    /\ calls' = Append(calls, [cap |-> "predict",
                               arg |-> Pairs(query_clean, candidates), ok |-> TRUE])
    /\ pc' = "done"
    /\ UNCHANGED <<mapping, query, faiss_top_k, rerank_top_k, query_clean, indices,
                   candidates, exc, ctxVars, fnVars, srvVars>>

\* cross_encoder.predict raises.
PredictRaisesSwallowed ==
    /\ pc = "searched"
    /\ pairs' = Pairs(query_clean, candidates)
    /\ calls' = Append(calls, [cap |-> "predict",
                               arg |-> Pairs(query_clean, candidates), ok |-> FALSE])
    /\ pc' = "done"
    /\ UNCHANGED <<mapping, query, faiss_top_k, rerank_top_k, query_clean, indices,
                   candidates, raw_scores, scored, result, exc, ctxVars, fnVars, srvVars>>
PredictRaises ==
    /\ pc = "searched"
    /\ pairs' = Pairs(query_clean, candidates)
    /\ calls' = Append(calls, [cap |-> "predict",
                               arg |-> Pairs(query_clean, candidates), ok |-> FALSE])
    /\ pc' = "raised"
    /\ exc' = "predict"
    /\ UNCHANGED <<mapping, query, faiss_top_k, rerank_top_k, query_clean, indices,
                   candidates, raw_scores, scored, result, ctxVars, fnVars, srvVars>>

NextSearch ==
    \/ Encode
    \/ EncodeRaises
    \/ IndexSearch
    \/ IndexSearchRaises
    \/ Predict
    \/ PredictRaises

SpecSearch == InitSearch /\ [][NextSearch]_vars

----------------------------------------------------------------------------
(* Properties of search *)

\* V: the number of returned positions that lie in [0, len(mapping)).
ValidPositions == {i \in DOMAIN indices : 0 <= indices[i] /\ indices[i] < Len(mapping)}
ValidCount == Cardinality(ValidPositions)

\* index.search has answered.
IndexAnswered == Len(indices) = faiss_top_k

\* The result dict r carries the four display fields of mapping position p.
BuiltFrom(r, p) ==
    /\ r.book_title = mapping[p + 1].book_title
    /\ r.chapter = mapping[p + 1].chapter
    /\ r.verse = mapping[p + 1].verse
    /\ r.text = mapping[p + 1].text

\* C1: with rerank_top_k >= 0, search returns min(rerank_top_k, V) results,
\* V being the number of returned index positions inside the mapping.
C1_ResultCardinality ==
    (pc = "done" /\ rerank_top_k >= 0)
        => /\ Len(result) = Min(rerank_top_k, ValidCount)
           /\ Len(result) <= rerank_top_k

\* C1 witness: more valid candidates than rerank_top_k, and the result was cut.
C1_Witness ==
    /\ pc = "done"
    /\ rerank_top_k >= 1
    /\ ValidCount > rerank_top_k
    /\ Len(result) = rerank_top_k

\* C2: the returned sequence is sorted by score, non-increasing.
C2_SortedDescending ==
    pc = "done"
        => \A i \in 1..(Len(result) - 1) : result[i].score >= result[i + 1].score

\* C2 witness: the candidates came back from the reranker in ascending score
\* order and the result holds them in descending order.
C2_Witness ==
    /\ pc = "done"
    /\ Len(result) = 2
    /\ scored[1].score < scored[2].score
    /\ result[1].score > result[2].score

\* C3: the result is taken from the valid candidates, and no omitted candidate
\* has a score strictly greater than a returned one.
C3_TopKAreBest ==
    pc = "done"
        => /\ BagOfSeq(result) \sqsubseteq BagOfSeq(scored)
           /\ \A o \in BagToSet(BagOfSeq(scored) (-) BagOfSeq(result)) :
                 \A i \in DOMAIN result : o.score <= result[i].score

\* C3 witness: the first candidate in index rank order is omitted because a
\* later one scored higher.
C3_Witness ==
    /\ pc = "done"
    /\ Len(result) = 1
    /\ Len(scored) = 2
    /\ scored[1].score < scored[2].score
    /\ result[1] = scored[2]

\* C4: every returned score lies in [0.0, 1.0].
C4_ScoreBounds ==
    pc = "done"
        => \A i \in DOMAIN result : 0 <= result[i].score /\ result[i].score <= Scale

\* C4 witness: raw scores of large magnitude, normalized to exactly 1.0 and 0.0.
C4_Witness ==
    /\ pc = "done"
    /\ \E i \in DOMAIN raw_scores : raw_scores[i] < 0
    /\ \E i \in DOMAIN raw_scores : raw_scores[i] > 0
    /\ \E i \in DOMAIN result : result[i].score = Scale
    /\ \E i \in DOMAIN result : result[i].score = 0

\* C5: positions outside [0, len(mapping)) are dropped: they give no
\* candidate, no pair and no result, search does not raise on them, and every
\* result is built from the mapping entry at an in-range returned position.
C5_OutOfRangeDropped ==
    /\ exc # "IndexError"
    /\ pc \in {"searched", "done"}
        => /\ Len(candidates) = ValidCount
           /\ \A i \in DOMAIN candidates :
                 /\ candidates[i] # IndexError
                 /\ \E j \in ValidPositions :
                       /\ candidates[i].idx = indices[j]
                       /\ candidates[i].entry = mapping[indices[j] + 1]
    /\ pc = "done"
        => /\ Len(pairs) = ValidCount
           /\ Len(raw_scores) = ValidCount
           /\ \A i \in DOMAIN result :
                 \E j \in ValidPositions : BuiltFrom(result[i], indices[j])

\* C5 witness: the index returned a position past the end of the mapping
\* ahead of a valid one, and search returned the valid one.
C5_Witness ==
    /\ pc = "done"
    /\ Len(indices) = 2
    /\ indices[1] >= Len(mapping)
    /\ indices[2] \in 0..(Len(mapping) - 1)
    /\ Len(result) = 1
    /\ BuiltFrom(result[1], indices[2])

C7_OriginalTextInResult ==
    pc = "done"
        => /\ \A i \in DOMAIN result :
                 \E c \in Range(candidates) : BuiltFrom(result[i], c.idx)
           /\ \A i \in DOMAIN pairs :
                 pairs[i][2] = ReplaceNewlines(mapping[candidates[i].idx + 1].text)

\* C7 witness: a returned text that contains a newline, while the pair sent
\* to the reranker for it contains none.
C7_Witness ==
    /\ pc = "done"
    /\ \E i \in DOMAIN result : "\n" \in Range(result[i].text)
    /\ \A i \in DOMAIN pairs : "\n" \notin Range(pairs[i][2])
    /\ pairs # <<>>

----------------------------------------------------------------------------
(* lifespan: the reverse index *)

VerseKey(r) == <<r.book_title, r.chapter, r.verse>>

\* The dict verse_idx after the loop has handled the first i entries:
\* verse_idx[key] = i overwrites what an earlier entry with the same key stored.
RECURSIVE BuildVerseIndex(_, _)
BuildVerseIndex(map, i) ==
    IF i = 0 THEN <<>>
    ELSE LET prev == BuildVerseIndex(map, i - 1)
             key == VerseKey(map[i])
         IN  [k \in (DOMAIN prev) \cup {key} |-> IF k = key THEN i - 1 ELSE prev[k]]

----------------------------------------------------------------------------
(* get_verse_context: operators *)

\* The single-entry list of the "idx is None" branch.
ContextFallbackEmpty(res) == <<>>
ContextFallback(res) ==
    <<[chapter |-> res.chapter, verse |-> res.verse, text |-> res.text,
       is_match |-> TRUE]>>

\* Condition of the backward while loop.
BackwardContinueAnyBook(map, idx, n, book, start) ==
    start > idx - n /\ start > 0
BackwardContinue(map, idx, n, book, start) ==
    /\ start > idx - n
    /\ start > 0
    /\ PyGetItem(map, start - 1).book_id = book

RECURSIVE ScanBackward(_, _, _, _, _)
ScanBackward(map, idx, n, book, start) ==
    IF BackwardContinue(map, idx, n, book, start)
    THEN ScanBackward(map, idx, n, book, start - 1)
    ELSE start

\* Condition of the forward while loop.
ForwardContinueOneMore(map, idx, n, book, end) ==
    /\ end <= idx + n
    /\ end < Len(map) - 1
    /\ PyGetItem(map, end + 1).book_id = book
ForwardContinue(map, idx, n, book, end) ==
    /\ end < idx + n
    /\ end < Len(map) - 1
    /\ PyGetItem(map, end + 1).book_id = book

RECURSIVE ScanForward(_, _, _, _, _)
ScanForward(map, idx, n, book, end) ==
    IF ForwardContinue(map, idx, n, book, end)
    THEN ScanForward(map, idx, n, book, end + 1)
    ELSE end

\* One dict of the context list, built from mapping[i].
ContextEntryMatchByKey(map, i, idx) ==
    LET entry == PyGetItem(map, i)
    IN  [chapter |-> entry.chapter, verse |-> entry.verse, text |-> entry.text,
         is_match |-> VerseKey(entry) = VerseKey(PyGetItem(map, idx))]
ContextEntry(map, i, idx) ==
    LET entry == PyGetItem(map, i)
    IN  [chapter |-> entry.chapter, verse |-> entry.verse, text |-> entry.text,
         is_match |-> i = idx]

\* The mapping positions the found path indexes: idx, the neighbour each
\* loop looked at when it stopped on the book test, and start..end.
FoundReads(map, idx, n, start, end) ==
    {idx} \cup (start..end)
          \cup (IF start > idx - n /\ start > 0 THEN {start - 1} ELSE {})
          \cup (IF end < idx + n /\ end < Len(map) - 1 THEN {end + 1} ELSE {})

\* get_verse_context(result, mapping, verse_index, n): the returned list (out)
\* with the locals at return.  idx is -1 where Python holds None.
get_verse_context(res, map, vi, n) ==
    LET key == VerseKey(res)
    IN  IF key \notin DOMAIN vi
        THEN [found |-> FALSE, exc |-> "none", idx |-> -1, start |-> -1,
              end |-> -1, reads |-> {}, out |-> ContextFallback(res)]
        ELSE LET idx == vi[key]
             IN  IF PyGetItem(map, idx) = IndexError
                 THEN [found |-> TRUE, exc |-> "IndexError", idx |-> idx,
                       start |-> -1, end |-> -1, reads |-> {idx}, out |-> <<>>]
                 ELSE LET matched_book_id == PyGetItem(map, idx).book_id
                          start == ScanBackward(map, idx, n, matched_book_id, idx)
                          end == ScanForward(map, idx, n, matched_book_id, idx)
                      IN  [found |-> TRUE, exc |-> "none", idx |-> idx,
                           start |-> start, end |-> end,
                           reads |-> FoundReads(map, idx, n, start, end),
                           out |-> [j \in 1..(end - start + 1) |->
                                       ContextEntry(map, start + j - 1, idx)]]

----------------------------------------------------------------------------
(* get_verse_context: specification *)

\* A search result dict built from a verse record.
ResultOfEntry(e) ==
    [book_title |-> e.book_title, chapter |-> e.chapter, verse |-> e.verse,
     text |-> e.text, score |-> Sigmoid(0)]

\* A result whose key no mapping holds.
UnknownResult ==
    [book_title |-> "Unknown", chapter |-> "99", verse |-> "1",
     text |-> <<"m">>, score |-> Sigmoid(0)]

SearchIdle ==
    /\ query = <<>>
    /\ faiss_top_k = 0
    /\ rerank_top_k = 0
    /\ pc = "idle"
    /\ query_clean = <<>>
    /\ indices = <<>>
    /\ candidates = <<>>
    /\ pairs = <<>>
    /\ raw_scores = <<>>
    /\ scored = <<>>
    /\ result = <<>>
    /\ exc = "none"
    /\ calls = <<>>

InitContext ==
    /\ mapping \in SeqsUpTo(Entries, MaxCtxLen)
    /\ verse_index = <<>>
    /\ ctx_result \in {ResultOfEntry(e) : e \in Entries} \cup {UnknownResult}
    /\ ctx_n \in 0..MaxN
    /\ ctx_pc = "load"
    /\ ctx = <<>>
    /\ SearchIdle
    /\ FnIdle
    /\ SrvIdle

\* lifespan, lines 157-161: build the reverse index from the loaded mapping.
BuildReverseIndex ==
    /\ ctx_pc = "load"
    /\ verse_index' = BuildVerseIndex(mapping, Len(mapping))
    /\ ctx_pc' = "call"
    /\ UNCHANGED <<mapping, searchVars, fnVars, srvVars, ctx_result, ctx_n, ctx>>

\* One call get_verse_context(ctx_result, mapping, verse_index, ctx_n).
GetVerseContext ==
    /\ ctx_pc = "call"
    /\ ctx' = get_verse_context(ctx_result, mapping, verse_index, ctx_n)
    /\ ctx_pc' = IF get_verse_context(ctx_result, mapping, verse_index, ctx_n).exc = "none"
                 THEN "returned" ELSE "raised"
    /\ UNCHANGED <<mapping, searchVars, fnVars, srvVars, verse_index, ctx_result, ctx_n>>

NextContext ==
    \/ BuildReverseIndex
    \/ GetVerseContext

SpecContext == InitContext /\ [][NextContext]_vars

----------------------------------------------------------------------------
(* Properties of get_verse_context *)

\* get_verse_context returned on the found path.
FoundReturned == ctx_pc = "returned" /\ VerseKey(ctx_result) \in DOMAIN verse_index

\* The context dict d carries chapter, verse and text of mapping position p.
TakenFrom(d, p) ==
    /\ d.chapter = mapping[p + 1].chapter
    /\ d.verse = mapping[p + 1].verse
    /\ d.text = mapping[p + 1].text

\* C8: on the found path the window is cut from positions start..end, all of
\* which hold the book_id of the matched position.
C8_WindowWithinBook ==
    FoundReturned
        => /\ 0 <= ctx.start /\ ctx.start <= ctx.idx
           /\ ctx.idx <= ctx.end /\ ctx.end < Len(mapping)
           /\ Len(ctx.out) = ctx.end - ctx.start + 1
           /\ \A j \in DOMAIN ctx.out : TakenFrom(ctx.out[j], ctx.start + j - 1)
           /\ \A p \in ctx.start..ctx.end :
                 mapping[p + 1].book_id = mapping[ctx.idx + 1].book_id

\* C8 witness: the next entry belongs to another book and n >= 1; the window
\* grew backward and stopped at the match going forward.
C8_Witness ==
    /\ FoundReturned
    /\ ctx_n >= 1
    /\ ctx.idx + 1 < Len(mapping)
    /\ mapping[ctx.idx + 2].book_id # mapping[ctx.idx + 1].book_id
    /\ ctx.end = ctx.idx
    /\ ctx.start < ctx.idx

\* C9: on the found path exactly one window entry has is_match = TRUE, the
\* one taken from the position the reverse index holds for the result's key.
C9_ExactlyOneMatch ==
    FoundReturned
        => /\ ctx.idx = verse_index[VerseKey(ctx_result)]
           /\ Cardinality({j \in DOMAIN ctx.out : ctx.out[j].is_match}) = 1
           /\ \A j \in DOMAIN ctx.out :
                 ctx.out[j].is_match <=> (ctx.start + j - 1 = ctx.idx)

\* C9 witness: a three-entry window whose middle entry is the match, while
\* the entry before it has the same (book_title, chapter, verse) key.
C9_Witness ==
    /\ FoundReturned
    /\ Len(ctx.out) = 3
    /\ ctx.out[2].is_match
    /\ ~ctx.out[1].is_match
    /\ VerseKey(mapping[ctx.idx]) = VerseKey(mapping[ctx.idx + 1])

\* C10: with the result's key absent from the reverse index, the call returns
\* exactly one entry, the result's own chapter, verse and text with
\* is_match = TRUE; it does not raise and indexes no mapping position.
C10_FallbackSingleEntry ==
    (ctx_pc \in {"returned", "raised"} /\ VerseKey(ctx_result) \notin DOMAIN verse_index)
        => /\ ctx_pc = "returned"
           /\ ctx.exc = "none"
           /\ Len(ctx.out) = 1
           /\ ctx.out[1] = [chapter |-> ctx_result.chapter, verse |-> ctx_result.verse,
                            text |-> ctx_result.text, is_match |-> TRUE]
           /\ ctx.reads = {}

\* C10 witness: a non-empty mapping, a result of a verse the mapping does not
\* hold, and the single-entry window came back.
C10_Witness ==
    /\ ctx_pc = "returned"
    /\ mapping # <<>>
    /\ ctx_result # UnknownResult
    /\ VerseKey(ctx_result) \notin DOMAIN verse_index
    /\ Len(ctx.out) = 1
    /\ ctx.out[1].text = ctx_result.text

\* The number of consecutive entries immediately before (dir = -1) or after
\* (dir = 1) position idx that hold the book_id of position idx.
SameBookRun(idx, dir) ==
    Cardinality({k \in 1..Len(mapping) :
        \A j \in 1..k :
            /\ idx + dir * j >= 0
            /\ idx + dir * j < Len(mapping)
            /\ mapping[idx + dir * j + 1].book_id = mapping[idx + 1].book_id})

\* C11: on the found path with n >= 0 the window is the mapping entries of
\* positions start..end in mapping order, start = idx - min(n, b) and
\* end = idx + min(n, a), b and a being the runs of same-book entries before
\* and after idx; it has 2n+1 entries when both runs reach n, never more.
C11_WindowShape ==
    (FoundReturned /\ ctx_n >= 0)
        => LET b == SameBookRun(ctx.idx, -1)
               a == SameBookRun(ctx.idx, 1)
           IN  /\ ctx.start = ctx.idx - Min(ctx_n, b)
               /\ ctx.end = ctx.idx + Min(ctx_n, a)
               /\ Len(ctx.out) = Min(ctx_n, b) + 1 + Min(ctx_n, a)
               /\ \A j \in DOMAIN ctx.out :
                     TakenFrom(ctx.out[j], ctx.idx - Min(ctx_n, b) + j - 1)
               /\ Len(ctx.out) <= 2 * ctx_n + 1
               /\ (b >= ctx_n /\ a >= ctx_n) => Len(ctx.out) = 2 * ctx_n + 1

\* C11 witness: more same-book entries follow the match than n allows, so the
\* forward scan stopped on n and not on a book boundary or the sequence end.
C11_Witness ==
    /\ FoundReturned
    /\ ctx_n = 1
    /\ SameBookRun(ctx.idx, 1) = 2
    /\ ctx.end = ctx.idx + 1
    /\ Len(ctx.out) = 2

----------------------------------------------------------------------------
(* Failure of a capability during search *)

\* The capabilities in the order search calls them.
CapabilityOrder == <<"encode", "index.search", "predict">>

\* C12: when a capability call raises, search raises that failure: the failed
\* call is the last call search makes (no retry, no later call), search ends
\* raised with the failed capability's exception, and it returns nothing.
C12_FailurePropagates ==
    /\ \A i \in DOMAIN calls :
          ~calls[i].ok
              => /\ i = Len(calls)
                 /\ pc = "raised"
                 /\ exc = calls[i].cap
                 /\ result = <<>>
                 /\ ~ENABLED NextSearch
    /\ Len(calls) <= Len(CapabilityOrder)
    /\ \A i \in DOMAIN calls : calls[i].cap = CapabilityOrder[i]

\* C12 witness: the reranker raised on a non-empty batch after encode and
\* index.search had answered, and search ended with that exception.
C12_Witness ==
    /\ pc = "raised"
    /\ exc = "predict"
    /\ Len(calls) = 3
    /\ calls[3].arg # <<>>
    /\ ~calls[3].ok
    /\ result = <<>>

----------------------------------------------------------------------------
(* sanitize_query *)

\* "NUL" stands for the character "\x00".
Nul == "NUL"
QueryChars == {"a", " ", "\t", "<", ">", Nul}

\* str.isspace(), which is also what \s matches.
IsSpace(c) == c \in {" ", "\t", "\n"}

\* str.strip()
Strip(s) ==
    LET solid == {i \in DOMAIN s : ~IsSpace(s[i])}
    IN  IF solid = {} THEN <<>>
        ELSE SubSeq(s, CHOOSE i \in solid : \A j \in solid : i <= j,
                       CHOOSE i \in solid : \A j \in solid : i >= j)

\* re.sub(r"<[^>]*>", "", s).  Matches are found left to right and do not
\* overlap: a match opens at the first "<" after the previous match (or after
\* an unmatched ">") that has a ">" somewhere behind it, and closes at the
\* first ">" behind it.  So position i lies in a match exactly when a ">"
\* stands at or after i and a "<" stands at or before i with no ">" between.
InTag(s, i) ==
    /\ \E j \in i..Len(s) : s[j] = ">"
    /\ \E p \in 1..i : s[p] = "<" /\ \A k \in p..(i - 1) : s[k] # ">"

RemoveTags(s) ==
    LET marked == [i \in DOMAIN s |-> IF InTag(s, i) THEN "DROP" ELSE s[i]]
    IN  SelectSeq(marked, LAMBDA c : c # "DROP")

\* str.replace("\x00", "")
RemoveNul(s) == SelectSeq(s, LAMBDA c : c # Nul)

\* re.sub(r"\s+", " ", s): every maximal run of whitespace becomes one space.
CollapseSpacesOnly(s) ==
    LET marked == [i \in DOMAIN s |->
                      IF s[i] # " " THEN s[i]
                      ELSE IF i > 1 /\ s[i - 1] = " " THEN "DROP" ELSE " "]
    IN  SelectSeq(marked, LAMBDA c : c # "DROP")
CollapseWhitespace(s) ==
    LET marked == [i \in DOMAIN s |->
                      IF ~IsSpace(s[i]) THEN s[i]
                      ELSE IF i > 1 /\ IsSpace(s[i - 1]) THEN "DROP" ELSE " "]
    IN  SelectSeq(marked, LAMBDA c : c # "DROP")

sanitize_query(raw) ==
    PySlicePrefix(Strip(CollapseWhitespace(RemoveNul(RemoveTags(Strip(raw))))),
                  MAX_QUERY_LENGTH)

\* Raw queries: every short string, and every short string behind a run of
\* letters that brings it to the length limit.
Letters(n) == [i \in 1..n |-> "a"]
ShortQueries == SeqsUpTo(QueryChars, MaxQueryLen)
SanitizeInputs ==
    ShortQueries \cup {Letters(MAX_QUERY_LENGTH - 1) \o t : t \in ShortQueries}

InitSanitize ==
    /\ fn_call \in {[fn |-> "sanitize_query", raw |-> s] : s \in SanitizeInputs}
    /\ fn_ret = NoReturn
    /\ mapping = <<>>
    /\ SearchIdle
    /\ CtxIdle
    /\ SrvIdle

CallSanitize ==
    /\ fn_call.fn = "sanitize_query"
    /\ fn_ret = NoReturn
    /\ fn_ret' = [returned |-> TRUE, value |-> sanitize_query(fn_call.raw)]
    /\ UNCHANGED <<mapping, searchVars, ctxVars, srvVars, fn_call>>

NextSanitize == CallSanitize

SpecSanitize == InitSanitize /\ [][NextSanitize]_vars

\* C15: sanitize_query returns at most MAX_QUERY_LENGTH characters, with no
\* NUL, no "<" followed anywhere by ">", no whitespace character other than
\* the space, and no two consecutive spaces.
C15_SanitizedShape ==
    fn_ret.returned
        => LET out == fn_ret.value
           IN  /\ Len(out) <= MAX_QUERY_LENGTH
               /\ \A i \in DOMAIN out :
                     /\ out[i] # Nul
                     /\ IsSpace(out[i]) => out[i] = " "
                     /\ (i > 1 /\ out[i] = " ") => out[i - 1] # " "
                     /\ out[i] = "<" => \A j \in (i + 1)..Len(out) : out[j] # ">"

\* C15 witness: a raw query longer than the limit that holds a tab and a NUL,
\* returned without them and cut to exactly MAX_QUERY_LENGTH characters.
C15_Witness ==
    /\ fn_ret.returned
    /\ Len(fn_call.raw) > MAX_QUERY_LENGTH
    /\ \E i \in DOMAIN fn_call.raw : fn_call.raw[i] = "\t"
    /\ \E i \in DOMAIN fn_call.raw : fn_call.raw[i] = Nul
    /\ Len(fn_ret.value) = MAX_QUERY_LENGTH
    /\ fn_ret.value # SubSeq(fn_call.raw, 1, MAX_QUERY_LENGTH)
----------------------------------------------------------------------------
(* get_score_label *)

\* config.SCORE_LABELS, thresholds in units of 1/Scale.
SCORE_LABELS ==
    << <<(8 * Scale) \div 10, "Tres pertinent">>,
       <<(5 * Scale) \div 10, "Pertinent">>,
       <<(3 * Scale) \div 10, "Peu pertinent">>,
       <<0, "Faible pertinence">> >>

ScoreExceeds(score, threshold) == score > threshold
ScoreReaches(score, threshold) == score >= threshold

\* The loop over SCORE_LABELS from its i-th pair on, and the return behind it.
RECURSIVE LabelFrom(_, _)
LabelFrom(score, i) ==
    IF i > Len(SCORE_LABELS) THEN PyGetItem(SCORE_LABELS, -1)[2]
    ELSE IF ScoreReaches(score, SCORE_LABELS[i][1]) THEN SCORE_LABELS[i][2]
    ELSE LabelFrom(score, i + 1)

get_score_label(score) == LabelFrom(score, 1)

\* Scores from below 0 to above 1.
ScoreInputs == (0 - Scale \div 4)..(Scale + Scale \div 4)

InitLabel ==
    /\ fn_call \in {[fn |-> "get_score_label", score |-> s] : s \in ScoreInputs}
    /\ fn_ret = NoReturn
    /\ mapping = <<>>
    /\ SearchIdle
    /\ CtxIdle
    /\ SrvIdle

CallLabel ==
    /\ fn_call.fn = "get_score_label"
    /\ fn_ret = NoReturn
    /\ fn_ret' = [returned |-> TRUE, value |-> get_score_label(fn_call.score)]
    /\ UNCHANGED <<mapping, searchVars, ctxVars, srvVars, fn_call>>

NextLabel == CallLabel

SpecLabel == InitLabel /\ [][NextLabel]_vars

\* Position of a label in SCORE_LABELS counted from the weakest label.
LabelRank(label) ==
    CHOOSE k \in 1..Len(SCORE_LABELS) :
        SCORE_LABELS[Len(SCORE_LABELS) + 1 - k][2] = label

\* C16: get_score_label answers every score: "Tres pertinent" from 0.8 up,
\* "Pertinent" in [0.5, 0.8), "Peu pertinent" in [0.3, 0.5), "Faible
\* pertinence" below 0.3, negative scores included; no lower score gets a
\* label of higher rank.
C16_LabelBands ==
    fn_ret.returned
        => LET s == fn_call.score
           IN  /\ fn_ret.value =
                     IF s >= (8 * Scale) \div 10 THEN "Tres pertinent"
                     ELSE IF s >= (5 * Scale) \div 10 THEN "Pertinent"
                     ELSE IF s >= (3 * Scale) \div 10 THEN "Peu pertinent"
                     ELSE "Faible pertinence"
               /\ \A t \in ScoreInputs :
                     t <= s => LabelRank(get_score_label(t)) <= LabelRank(fn_ret.value)

\* C16 witness: the score exactly at the 0.8 threshold is labelled
\* "Tres pertinent".
C16_Witness ==
    /\ fn_ret.returned
    /\ fn_call.score = (8 * Scale) \div 10
    /\ fn_ret.value = "Tres pertinent"

----------------------------------------------------------------------------
(* ingest: fetch_verses rows and filter_verses *)

\* Verse texts: one that passes the default thresholds and holds a newline,
\* one that passes without a newline, one too short in characters, one with
\* too few words.
TextKeptMultiline == <<"a", "b", " ", "c", "d", " ", "e", "f", "\n", "g">>
TextKept == <<"a", "b", "c", " ", " ", "d", "e", "f", " ", "g", "h">>
TextShort == <<"a", " ", "b", " ", "c">>
TextFewWords == <<"a", "b", "c", "d", "e", " ", "f", "g", "h", "i">>
DbTexts == {TextKeptMultiline, TextKept, TextShort, TextFewWords}

\* A row of the verses table as fetch_verses returns it.
DbVerse(rowid, b, t) ==
    [rowid |-> rowid, book |-> IF b = 1 THEN "A" ELSE "B", book_id |-> b,
     book_title |-> BookTitle(b), chapter |-> BookChapter(b), chapter_id |-> b,
     chapter_title |-> "ch", verse |-> "1", text |-> t]

\* The tables fetch_verses can return: rows in rowid order.
DbTables ==
    {[i \in DOMAIN c |-> DbVerse(i, c[i][1], c[i][2])] :
        c \in SeqsUpTo(BookIds \X DbTexts, MaxDbLen)}

\* len(text.split()): the number of maximal runs of non-whitespace.
SplitLen(t) ==
    Cardinality({i \in DOMAIN t : ~IsSpace(t[i]) /\ (i = 1 \/ IsSpace(t[i - 1]))})

KeepVerseEither(v, min_length, min_words) ==
    Len(v.text) >= min_length \/ SplitLen(v.text) >= min_words
KeepVerse(v, min_length, min_words) ==
    Len(v.text) >= min_length /\ SplitLen(v.text) >= min_words

filter_verses(verses, min_length, min_words) ==
    SelectSeq(verses, LAMBDA v : KeepVerse(v, min_length, min_words))

MinLengths == {0, MIN_TEXT_LENGTH \div 2, MIN_TEXT_LENGTH, MIN_TEXT_LENGTH + 1}
MinWords == 0..(MIN_WORD_COUNT + 1)

InitFilter ==
    /\ fn_call \in {[fn |-> "filter_verses", verses |-> d, min_length |-> l,
                     min_words |-> w] :
                        d \in DbTables, l \in MinLengths, w \in MinWords}
    /\ fn_ret = NoReturn
    /\ mapping = <<>>
    /\ SearchIdle
    /\ CtxIdle
    /\ SrvIdle

CallFilter ==
    /\ fn_call.fn = "filter_verses"
    /\ fn_ret = NoReturn
    /\ fn_ret' = [returned |-> TRUE,
                  value |-> filter_verses(fn_call.verses, fn_call.min_length,
                                          fn_call.min_words)]
    /\ UNCHANGED <<mapping, searchVars, ctxVars, srvVars, fn_call>>

NextFilter == CallFilter

SpecFilter == InitFilter /\ [][NextFilter]_vars

\* Positions of the verses that meet both thresholds.
Qualifying(verses, min_length, min_words) ==
    {i \in DOMAIN verses :
        /\ Len(verses[i].text) >= min_length
        /\ SplitLen(verses[i].text) >= min_words}

\* C19: filter_verses returns exactly the verses with at least min_length
\* characters and at least min_words words, unaltered, once each, in their
\* original order.
C19_FilterExact ==
    fn_ret.returned
        => LET q == Qualifying(fn_call.verses, fn_call.min_length, fn_call.min_words)
               out == fn_ret.value
           IN  /\ Len(out) = Cardinality(q)
               /\ \A j \in DOMAIN out :
                     out[j] = fn_call.verses[CHOOSE i \in q :
                                                Cardinality({k \in q : k <= i}) = j]
               /\ \A j, k \in DOMAIN out : j < k => out[j].rowid < out[k].rowid

\* C19 witness: under the default thresholds, of three verses the first is
\* dropped for its length, the last for its word count, the middle one kept.
C19_Witness ==
    /\ fn_ret.returned
    /\ fn_call.min_length = MIN_TEXT_LENGTH
    /\ fn_call.min_words = MIN_WORD_COUNT
    /\ Len(fn_call.verses) = 3
    /\ fn_call.verses[1].text = TextShort
    /\ fn_call.verses[3].text = TextFewWords
    /\ fn_ret.value = <<fn_call.verses[2]>>

----------------------------------------------------------------------------
(* ingest.main *)

build_mapping(verses) ==
    [i \in DOMAIN verses |->
        [rowid |-> verses[i].rowid, book |-> verses[i].book,
         book_id |-> verses[i].book_id, book_title |-> verses[i].book_title,
         chapter |-> verses[i].chapter, chapter_id |-> verses[i].chapter_id,
         chapter_title |-> verses[i].chapter_title, verse |-> verses[i].verse,
         text |-> verses[i].text]]

\* model.encode: one vector per text, determined by the text it is given.
Embedding(t) == [embeds |-> t]

\* encode_texts: newlines become spaces before encoding, one row per text.
encode_texts(texts) == [i \in DOMAIN texts |-> Embedding(ReplaceNewlines(texts[i]))]

\* build_index: the rows of encode_texts added to an empty flat index.
build_index(texts) == encode_texts(texts)

\* texts = [v["text"] for v in filtered]
IngestTextsUnfiltered(verses, filtered) == [i \in DOMAIN verses |-> verses[i].text]
IngestTexts(verses, filtered) == [i \in DOMAIN filtered |-> filtered[i].text]

InitIngest ==
    /\ fn_call \in {[fn |-> "main", db |-> d] : d \in DbTables}
    /\ fn_ret = NoReturn
    /\ mapping = <<>>
    /\ SearchIdle
    /\ CtxIdle
    /\ SrvIdle

IngestRaised(at) ==
    [returned |-> TRUE, pc |-> at, exc |-> "error",
     mapping |-> IF at = "fetch" THEN <<>> ELSE fn_ret.mapping,
     index |-> IF at = "fetch" THEN <<>> ELSE fn_ret.index,
     index_saved |-> at = "write_mapping",
     index_file |-> IF at = "write_mapping" THEN fn_ret.index_file ELSE <<>>,
     mapping_saved |-> FALSE, mapping_file |-> <<>>]

\* main up to build_index: fetch, filter, build the mapping, embed.
IngestBuild ==
    /\ fn_call.fn = "main"
    /\ fn_ret = NoReturn
    /\ LET verses == fn_call.db
           filtered == filter_verses(verses, MIN_TEXT_LENGTH, MIN_WORD_COUNT)
           texts == IngestTexts(verses, filtered)
       IN  fn_ret' = [returned |-> FALSE, pc |-> "built", exc |-> "none",
                      mapping |-> build_mapping(filtered),
                      index |-> build_index(texts),
                      index_saved |-> FALSE, index_file |-> <<>>,
                      mapping_saved |-> FALSE, mapping_file |-> <<>>]
    /\ UNCHANGED <<mapping, searchVars, ctxVars, srvVars, fn_call>>

\* The database, the model or the index library raises.
IngestBuildRaises ==
    /\ fn_call.fn = "main"
    /\ fn_ret = NoReturn
    /\ fn_ret' = IngestRaised("fetch")
    /\ UNCHANGED <<mapping, searchVars, ctxVars, srvVars, fn_call>>

\* save_artifacts: faiss.write_index
IngestWriteIndex ==
    /\ fn_call.fn = "main"
    /\ ~fn_ret.returned /\ fn_ret # NoReturn /\ fn_ret.pc = "built"
    /\ fn_ret' = [fn_ret EXCEPT !.pc = "index_written", !.index_saved = TRUE,
                                !.index_file = fn_ret.index]
    /\ UNCHANGED <<mapping, searchVars, ctxVars, srvVars, fn_call>>

IngestWriteIndexRaises ==
    /\ fn_call.fn = "main"
    /\ ~fn_ret.returned /\ fn_ret # NoReturn /\ fn_ret.pc = "built"
    /\ fn_ret' = IngestRaised("write_index")
    /\ UNCHANGED <<mapping, searchVars, ctxVars, srvVars, fn_call>>

\* save_artifacts: json.dump of the mapping, then main returns.
IngestWriteMapping ==
    /\ fn_call.fn = "main"
    /\ ~fn_ret.returned /\ fn_ret # NoReturn /\ fn_ret.pc = "index_written"
    /\ fn_ret' = [fn_ret EXCEPT !.returned = TRUE, !.pc = "done",
                                !.mapping_saved = TRUE,
                                !.mapping_file = fn_ret.mapping]
    /\ UNCHANGED <<mapping, searchVars, ctxVars, srvVars, fn_call>>

IngestWriteMappingRaises ==
    /\ fn_call.fn = "main"
    /\ ~fn_ret.returned /\ fn_ret # NoReturn /\ fn_ret.pc = "index_written"
    /\ fn_ret' = IngestRaised("write_mapping")
    /\ UNCHANGED <<mapping, searchVars, ctxVars, srvVars, fn_call>>

NextIngest ==
    \/ IngestBuild
    \/ IngestBuildRaises
    \/ IngestWriteIndex
    \/ IngestWriteIndexRaises
    \/ IngestWriteMapping
    \/ IngestWriteMappingRaises

SpecIngest == InitIngest /\ [][NextIngest]_vars

\* The database row behind the j-th saved entry: the j-th row that meets the
\* default thresholds.
FilteredRow(j) ==
    LET q == Qualifying(fn_call.db, MIN_TEXT_LENGTH, MIN_WORD_COUNT)
    IN  fn_call.db[CHOOSE i \in q : Cardinality({k \in q : k <= i}) = j]

\* C18: when main has returned, the saved index and the saved mapping have
\* as many entries as there are filtered verses; the i-th mapping entry is
\* the i-th filtered verse with all its metadata and its text unmodified,
\* and index row i is the embedding of that verse's text.
C18_IndexMappingAligned ==
    (fn_ret.returned /\ fn_ret.exc = "none")
        => LET q == Qualifying(fn_call.db, MIN_TEXT_LENGTH, MIN_WORD_COUNT)
           IN  /\ fn_ret.index_saved /\ fn_ret.mapping_saved
               /\ Len(fn_ret.index_file) = Cardinality(q)
               /\ Len(fn_ret.mapping_file) = Cardinality(q)
               /\ \A i \in DOMAIN fn_ret.mapping_file :
                     /\ fn_ret.mapping_file[i] = FilteredRow(i)
                     /\ fn_ret.index_file[i] =
                            Embedding(ReplaceNewlines(FilteredRow(i).text))

\* C18 witness: of three rows the first is filtered out; the two saved
\* entries are rows 2 and 3, the first of them keeping the newline that its
\* embedded text lost.
C18_Witness ==
    /\ fn_ret.returned /\ fn_ret.exc = "none"
    /\ Len(fn_call.db) = 3
    /\ fn_call.db[1].text = TextShort
    /\ Len(fn_ret.mapping_file) = 2
    /\ fn_ret.mapping_file[1].rowid = 2
    /\ fn_ret.mapping_file[1].text = TextKeptMultiline
    /\ fn_ret.index_file[1].embeds # fn_ret.mapping_file[1].text

----------------------------------------------------------------------------
(* app: lifespan startup and search_endpoint *)

\* Raw form values of the query field: empty, whitespace only, a tag only,
\* a single word, and two words around a newline behind a tag.
RequestQueries ==
    {<<>>, <<" ", "\t">>, <<"<", "a", ">">>, <<"a">>,
     <<"<", ">", "a", "\n", "a">>}

\* Raw logits the reranker of the server answers with.
ServerRawScores == {0 - 8, 0, 8}

\* index.search(embedding, k) on an index of ntotal rows: the rows in some
\* order of similarity, cut to k and padded with -1 up to k.
IndexAnswers(ntotal, k) ==
    {[i \in 1..k |-> IF i <= ntotal THEN p[i] ELSE -1] :
        p \in {f \in [1..ntotal -> 0..(ntotal - 1)] :
                  \A i, j \in 1..ntotal : f[i] = f[j] => i = j}}

\* The mapping list after the candidate loop: the loop reads mapping[idx_int]
\* and assigns nothing to it.
MappingAfterCandidatesCleaned(map, ind) ==
    [i \in DOMAIN map |->
        IF \E j \in DOMAIN ind : ind[j] = i - 1
        THEN [map[i] EXCEPT !.text = ReplaceNewlines(map[i].text)]
        ELSE map[i]]
MappingAfterCandidates(map, ind) == map

\* if not cleaned
RejectsOneLetter(cleaned) == Len(cleaned) <= 1
Rejects(cleaned) == cleaned = <<>>

\* The message of the error template when _run_search raised e.
ErrorMessageLeaks(e) == e
ErrorMessage(e) == "Une erreur interne est survenue. Veuillez reessayer."

\* r["score"] >= config.RELEVANCE_THRESHOLD
IsRelevantStrict(score) == score > RELEVANCE_THRESHOLD
IsRelevant(score) == score >= RELEVANCE_THRESHOLD

\* int(score * 100)
Pct(score) == (score * 100) \div Scale

NoResponse ==
    [status |-> 0, template |-> "none", message |-> "", query |-> <<>>,
     results |-> <<>>]
ErrorResponse(message) ==
    [status |-> 200, template |-> "error.html", message |-> message,
     query |-> <<>>, results |-> <<>>]

\* Lines 209-227: the response built from what _run_search returned.  An
\* exception of get_verse_context is caught by nothing: status 500.
Render(cleaned, results, map, vi) ==
    LET relevant == SelectSeq(results, LAMBDA x : IsRelevant(x.score))
        context == [i \in DOMAIN relevant |->
                       get_verse_context(relevant[i], map, vi, CONTEXT_VERSES)]
    IN  IF relevant = <<>>
        THEN [status |-> 200, template |-> "no_results.html", message |-> "",
              query |-> cleaned, results |-> <<>>]
        ELSE IF \E i \in DOMAIN context : context[i].exc # "none"
        THEN [status |-> 500, template |-> "none", message |-> "",
              query |-> <<>>, results |-> <<>>]
        ELSE [status |-> 200, template |-> "results.html", message |-> "",
              query |-> cleaned,
              results |-> [i \in DOMAIN relevant |->
                  [book_title |-> relevant[i].book_title,
                   chapter |-> relevant[i].chapter,
                   verse |-> relevant[i].verse,
                   text |-> relevant[i].text,
                   score |-> relevant[i].score,
                   label |-> get_score_label(relevant[i].score),
                   pct |-> Pct(relevant[i].score),
                   context_verses |-> context[i].out]]]

\* The locals of a request that has just arrived with form value q.
NewRequest(q) ==
    [pc |-> "new", query |-> q, cleaned |-> <<>>, query_clean |-> <<>>,
     indices |-> <<>>, candidates |-> <<>>, raw_scores |-> <<>>,
     results |-> <<>>, calls |-> <<>>, exc |-> "none", response |-> NoResponse,
     index |-> [ntotal |-> 0], mapping |-> <<>>]

\* The response of the framework when an exception leaves search_endpoint.
UnhandledResponse ==
    [status |-> 500, template |-> "none", message |-> "", query |-> <<>>,
     results |-> <<>>]

\* The keys _run_search reads from the pipeline dict (lines 73-76).
RunSearchKeys == {"index", "mapping", "embed_model", "cross_encoder"}


InitServerWith(maxLen, n, queries) ==
    /\ mapping \in SeqsUpTo(SearchEntries, maxLen)
    /\ pipeline = <<>>
    /\ req \in [1..n -> {NewRequest(q) : q \in queries}]
    /\ lifespan_pc = "start"
    /\ SearchIdle
    /\ CtxIdle
    /\ FnIdle

\* One request against mappings of up to MaxMapLen entries.
InitServer == InitServerWith(MaxMapLen, 1, RequestQueries)

\* Two requests in flight against mappings of up to MaxConcLen entries.
InitConcurrent == InitServerWith(MaxConcLen, 2, {<<" ">>, <<"a", "\n", "a">>})

\* lifespan, lines 151-155: the artifacts are loaded (the index holds one
\* row per mapping entry, or one more when it comes from another ingestion)
\* and stored under their four keys.
LifespanPopulateLoadedFirst ==
    /\ lifespan_pc = "start"
    /\ \E ntotal \in {Len(mapping), Len(mapping) + 1} :
          pipeline' = [index |-> [ntotal |-> ntotal],
                       mapping |-> mapping,
                       embed_model |-> "embed_model",
                       cross_encoder |-> "cross_encoder",
                       loaded |-> TRUE]
    /\ lifespan_pc' = "populated"
    /\ UNCHANGED <<mapping, searchVars, ctxVars, fnVars, req>>
LifespanPopulate ==
    /\ lifespan_pc = "start"
    /\ \E ntotal \in {Len(mapping), Len(mapping) + 1} :
          pipeline' = [index |-> [ntotal |-> ntotal],
                       mapping |-> mapping,
                       embed_model |-> "embed_model",
                       cross_encoder |-> "cross_encoder"]
    /\ lifespan_pc' = "populated"
    /\ UNCHANGED <<mapping, searchVars, ctxVars, fnVars, req>>

\* d[key] = value on the dict d.
DictSet(d, key, value) ==
    [k \in (DOMAIN d) \cup {key} |-> IF k = key THEN value ELSE d[k]]

\* lifespan, lines 157-161: the reverse index is built from the loaded
\* mapping and stored.
LifespanBuildIndex ==
    /\ lifespan_pc = "populated"
    /\ pipeline' = DictSet(pipeline, "verse_index",
                           BuildVerseIndex(mapping, Len(mapping)))
    /\ lifespan_pc' = "indexed"
    /\ UNCHANGED <<mapping, searchVars, ctxVars, fnVars, req>>

\* lifespan, lines 163-164: loaded is set and the application serves.
LifespanSetLoaded ==
    /\ lifespan_pc = "indexed"
    /\ pipeline' = DictSet(pipeline, "loaded", TRUE)
    /\ lifespan_pc' = "serving"
    /\ UNCHANGED <<mapping, searchVars, ctxVars, fnVars, req>>

\* lifespan, line 165: pipeline.clear() at shutdown.
LifespanShutdown ==
    /\ lifespan_pc = "serving"
    /\ pipeline' = <<>>
    /\ lifespan_pc' = "stopped"
    /\ UNCHANGED <<mapping, searchVars, ctxVars, fnVars, req>>

\* The except branch of lines 201-207 after _run_search raised e.
Caught(r, e) ==
    [req[r] EXCEPT !.pc = "responded", !.exc = e,
                   !.response = ErrorResponse(ErrorMessage(e))]

\* Lines 190-200: sanitize, reject an empty query, else enter _run_search,
\* which reads the pipeline entries (KeyError when one is missing, caught
\* by line 201) and hands them to search, and search up to the call of
\* embed_model.encode.  A handler dispatched before shutdown may run after it.
ReqReceive(r) ==
    /\ lifespan_pc \in {"serving", "stopped"}
    /\ req[r].pc = "new"
    /\ LET cleaned == sanitize_query(req[r].query)
       IN  req' = [req EXCEPT ![r] =
                IF Rejects(cleaned)
                THEN [@ EXCEPT !.pc = "responded", !.cleaned = cleaned,
                               !.response = ErrorResponse(
                                   "Veuillez saisir une question ou un mot-cle.")]
                ELSE IF ~(RunSearchKeys \subseteq DOMAIN pipeline)
                THEN [Caught(r, "KeyError") EXCEPT !.cleaned = cleaned]
                ELSE [@ EXCEPT !.pc = "encode", !.cleaned = cleaned,
                               !.index = pipeline.index,
                               !.mapping = pipeline.mapping,
                               !.query_clean = QueryClean(cleaned),
                               !.calls = <<"encode">>]]
    /\ UNCHANGED <<mapping, searchVars, ctxVars, fnVars, pipeline, lifespan_pc>>

\* encode returns; search calls index.search.
ReqEncode(r) ==
    /\ req[r].pc = "encode"
    /\ req' = [req EXCEPT ![r].pc = "index",
                          ![r].calls = Append(@, "index.search")]
    /\ UNCHANGED <<mapping, searchVars, ctxVars, fnVars, pipeline, lifespan_pc>>

ReqEncodeRaises(r) ==
    /\ req[r].pc = "encode"
    /\ req' = [req EXCEPT ![r] = Caught(r, "encode failed")]
    /\ UNCHANGED <<mapping, searchVars, ctxVars, fnVars, pipeline, lifespan_pc>>

\* index.search returns; the candidate loop runs over the mapping search
\* was handed and search calls cross_encoder.predict.
ReqIndexSearch(r) ==
    /\ req[r].pc = "index"
    /\ \E ind \in IndexAnswers(req[r].index.ntotal, FAISS_TOP_K) :
          LET cands == Candidates(ind, req[r].mapping)
          IN  /\ req' = [req EXCEPT ![r] =
                    IF \E i \in DOMAIN cands : cands[i] = IndexError
                    THEN [Caught(r, "list index out of range")
                             EXCEPT !.indices = ind]
                    ELSE [@ EXCEPT !.pc = "predict", !.indices = ind,
                                   !.candidates = cands,
                                   !.calls = Append(@, "predict")]]
              /\ pipeline' = IF "mapping" \in DOMAIN pipeline
                             THEN [pipeline EXCEPT !.mapping =
                                      MappingAfterCandidates(pipeline.mapping, ind)]
                             ELSE pipeline
    /\ UNCHANGED <<mapping, searchVars, ctxVars, fnVars, lifespan_pc>>

ReqIndexSearchRaises(r) ==
    /\ req[r].pc = "index"
    /\ req' = [req EXCEPT ![r] = Caught(r, "index.search failed")]
    /\ UNCHANGED <<mapping, searchVars, ctxVars, fnVars, pipeline, lifespan_pc>>

\* predict returns; search normalizes, sorts, truncates and returns.
ReqPredict(r) ==
    /\ req[r].pc = "predict"
    /\ \E raw \in [1..Len(req[r].candidates) -> ServerRawScores] :
          req' = [req EXCEPT
              ![r].pc = "render",
              ![r].raw_scores = raw,
              ![r].results = SearchReturn(
                  Scored(req[r].candidates, normalize_scores(raw)), RERANK_TOP_K)]
    /\ UNCHANGED <<mapping, searchVars, ctxVars, fnVars, pipeline, lifespan_pc>>

ReqPredictRaises(r) ==
    /\ req[r].pc = "predict"
    /\ req' = [req EXCEPT ![r] = Caught(r, "predict failed")]
    /\ UNCHANGED <<mapping, searchVars, ctxVars, fnVars, pipeline, lifespan_pc>>

\* Lines 209-227.  Line 221 reads pipeline["mapping"] and
\* pipeline["verse_index"] for each relevant result, outside the try: a
\* missing key raises KeyError out of search_endpoint.
ReqRender(r) ==
    /\ req[r].pc = "render"
    /\ req' = [req EXCEPT
          ![r].pc = "responded",
          ![r].response =
              IF /\ \E i \in DOMAIN req[r].results : IsRelevant(req[r].results[i].score)
                 /\ ~({"mapping", "verse_index"} \subseteq DOMAIN pipeline)
              THEN UnhandledResponse
              ELSE IF ~\E i \in DOMAIN req[r].results :
                          IsRelevant(req[r].results[i].score)
              THEN Render(req[r].cleaned, req[r].results, <<>>, <<>>)
              ELSE Render(req[r].cleaned, req[r].results,
                          pipeline.mapping, pipeline.verse_index)]
    /\ UNCHANGED <<mapping, searchVars, ctxVars, fnVars, pipeline, lifespan_pc>>

NextServer ==
    \/ LifespanPopulate
    \/ LifespanBuildIndex
    \/ LifespanSetLoaded
    \/ \E r \in DOMAIN req : ReqReceive(r)
    \/ \E r \in DOMAIN req : ReqEncode(r)
    \/ \E r \in DOMAIN req : ReqEncodeRaises(r)
    \/ \E r \in DOMAIN req : ReqIndexSearch(r)
    \/ \E r \in DOMAIN req : ReqIndexSearchRaises(r)
    \/ \E r \in DOMAIN req : ReqPredict(r)
    \/ \E r \in DOMAIN req : ReqPredictRaises(r)
    \/ \E r \in DOMAIN req : ReqRender(r)

SpecServer == InitServer /\ [][NextServer]_vars

\* The server with its shutdown: the lifespan resumes after the yield while
\* a handler may still be running in the thread pool.
NextLifecycle ==
    \/ NextServer
    \/ LifespanShutdown

SpecLifecycle == InitServer /\ [][NextLifecycle]_vars

SpecConcurrent == InitConcurrent /\ [][NextServer]_vars


----------------------------------------------------------------------------
(* Properties of search_endpoint *)

Responded(r) == req[r].pc = "responded"

\* The request got through _run_search and was answered by lines 209-227.
Rendered(r) == Responded(r) /\ req[r].exc = "none" /\ req[r].cleaned # <<>>

\* C13: when _run_search raised, the response has status 200 and is the
\* error template with the fixed generic message; the exception's text is
\* not in it, and it is neither the results nor the no_results template.
C13_ErrorBoundary ==
    \A r \in DOMAIN req :
        req[r].exc # "none"
            => /\ Responded(r)
               /\ req[r].cleaned # <<>>
               /\ req[r].response.status = 200
               /\ req[r].response.template = "error.html"
               /\ req[r].response.message =
                      "Une erreur interne est survenue. Veuillez reessayer."
               /\ req[r].response.message # req[r].exc
               /\ req[r].response.results = <<>>

\* C13 witness: the reranker raised on a non-empty batch of pairs and the
\* request was answered with the error template.
C13_Witness ==
    \E r \in DOMAIN req :
        /\ req[r].exc = "predict failed"
        /\ req[r].candidates # <<>>
        /\ req[r].calls = <<"encode", "index.search", "predict">>
        /\ req[r].response.template = "error.html"

\* C14: a query that is empty after sanitize_query is answered with the
\* error template and the "Veuillez saisir" message without any call into
\* the retrieval pipeline; every other query reaches the pipeline.
C14_EmptyQueryRejected ==
    \A r \in DOMAIN req :
        req[r].pc # "new"
            => IF sanitize_query(req[r].query) = <<>>
               THEN /\ Responded(r)
                    /\ req[r].response =
                           ErrorResponse("Veuillez saisir une question ou un mot-cle.")
                    /\ req[r].calls = <<>>
               ELSE /\ req[r].calls # <<>>
                    /\ req[r].calls[1] = "encode"
                    /\ req[r].query_clean = sanitize_query(req[r].query)
                    /\ req[r].response.message #
                           "Veuillez saisir une question ou un mot-cle."

\* C14 witness: a query made of one tag only is rejected.
C14_Witness ==
    \E r \in DOMAIN req :
        /\ req[r].query = <<"<", "a", ">">>
        /\ Responded(r)
        /\ req[r].response.template = "error.html"
        /\ req[r].calls = <<>>

\* C17: every result _run_search returned is displayed, in the same order;
\* the no_results template is returned exactly when it returned none; each
\* displayed result carries its label, a pct in 0..100 and the context of
\* its own verse.
C17_AllResultsDisplayed ==
    \A r \in DOMAIN req :
        Rendered(r)
            => LET res == req[r].results
                   shown == req[r].response.results
               IN  /\ req[r].response.status = 200
                   /\ (req[r].response.template = "no_results.html") <=> (res = <<>>)
                   /\ res # <<>> => req[r].response.template = "results.html"
                   /\ Len(shown) = Len(res)
                   /\ \A i \in DOMAIN shown :
                         /\ shown[i].book_title = res[i].book_title
                         /\ shown[i].chapter = res[i].chapter
                         /\ shown[i].verse = res[i].verse
                         /\ shown[i].text = res[i].text
                         /\ shown[i].score = res[i].score
                         /\ shown[i].label = get_score_label(res[i].score)
                         /\ shown[i].pct \in 0..100
                         /\ shown[i].pct * Scale <= 100 * res[i].score
                         /\ shown[i].context_verses =
                                get_verse_context(res[i], pipeline.mapping,
                                                  pipeline.verse_index,
                                                  CONTEXT_VERSES).out

\* C17 witness: two results are displayed, the second with score 0, pct 0
\* and the weakest label.
C17_Witness ==
    \E r \in DOMAIN req :
        /\ Rendered(r)
        /\ req[r].response.template = "results.html"
        /\ Len(req[r].response.results) = 2
        /\ req[r].response.results[2].score = 0
        /\ req[r].response.results[2].pct = 0
        /\ req[r].response.results[2].label = "Faible pertinence"
        /\ req[r].response.results[2].context_verses # <<>>

\* What a request answers when nothing else runs: a function of its own
\* form value, of what the capabilities answered to it, and of the artifacts
\* as they were loaded.
AloneResponse(q) ==
    LET cleaned == sanitize_query(q.query)
    IN  IF cleaned = <<>>
        THEN ErrorResponse("Veuillez saisir une question ou un mot-cle.")
        ELSE IF q.exc # "none"
        THEN ErrorResponse("Une erreur interne est survenue. Veuillez reessayer.")
        ELSE Render(cleaned,
                    SearchReturn(Scored(Candidates(q.indices, mapping),
                                        normalize_scores(q.raw_scores)),
                                 RERANK_TOP_K),
                    mapping, BuildVerseIndex(mapping, Len(mapping)))

\* C20: no step of a request changes the index, the mapping or the reverse
\* index, and under every interleaving of two requests each one answers
\* what it would answer alone.
C20_RequestsIsolated ==
    /\ [][(\E r \in DOMAIN req : req'[r] # req[r])
             => (pipeline' = pipeline /\ mapping' = mapping)]_vars
    /\ [](\A r \in DOMAIN req : Responded(r) => req[r].response = AloneResponse(req[r]))

\* C20 witness: two requests are past their candidate loops at the same
\* time, and one of them has displayed results.
C20_Witness ==
    /\ req[1].response.template = "results.html"
    /\ req[2].pc = "render"
    /\ req[2].results # <<>>
    /\ req[1].indices # req[2].indices

----------------------------------------------------------------------------
(* normalize_scores on its own *)

NormalizeInputs == SeqsUpTo((0 - MaxLogit)..MaxLogit, MaxBatch)

InitNormalize ==
    /\ fn_call \in {[fn |-> "normalize_scores", raw_scores |-> a] : a \in NormalizeInputs}
    /\ fn_ret = NoReturn
    /\ mapping = <<>>
    /\ SearchIdle
    /\ CtxIdle
    /\ SrvIdle

CallNormalize ==
    /\ fn_call.fn = "normalize_scores"
    /\ fn_ret = NoReturn
    /\ fn_ret' = [returned |-> TRUE, value |-> normalize_scores(fn_call.raw_scores)]
    /\ UNCHANGED <<mapping, searchVars, ctxVars, srvVars, fn_call>>

NextNormalize == CallNormalize

SpecNormalize == InitNormalize /\ [][NextNormalize]_vars

\* C21: normalize_scores returns one value per input; the value at position
\* i is the one the same input gets when normalized on its own, and inputs
\* x <= y get outputs f(x) <= f(y).
C21_ElementwiseMonotone ==
    fn_ret.returned
        => LET raw == fn_call.raw_scores
               out == fn_ret.value
           IN  /\ Len(out) = Len(raw)
               /\ \A i \in DOMAIN raw : out[i] = normalize_scores(<<raw[i]>>)[1]
               /\ \A i, j \in DOMAIN raw : raw[i] <= raw[j] => out[i] <= out[j]

\* C21 witness: an array of two raw scores in descending order comes back
\* as two normalized scores in strictly descending order.
C21_Witness ==
    /\ fn_ret.returned
    /\ Len(fn_call.raw_scores) = 2
    /\ fn_call.raw_scores[1] > fn_call.raw_scores[2]
    /\ fn_ret.value[1] > fn_ret.value[2]
    /\ fn_ret.value[2] > 0


\* The checks of the tests: f(0) is 0.5 to within the resolution, f(10)
\* exceeds 0.999 and f(-10) is below 0.001.
SigmoidAnchors(raw, out) ==
    \A i \in DOMAIN raw :
        /\ raw[i] = 0 => (2 * out[i] - Scale) \in (0 - 1)..1
        /\ raw[i] = 10 => 1000 * out[i] > 999 * Scale
        /\ raw[i] = 0 - 10 => 1000 * out[i] < Scale

----------------------------------------------------------------------------
(* Further properties of search *)

\* The position in indices of the i-th returned position that lies inside
\* the mapping: the index rank of the i-th candidate.
RankOfCandidate(i) ==
    CHOOSE j \in ValidPositions :
        Cardinality({k \in ValidPositions : k <= j}) = i

\* Ways to place the results on distinct candidates so that each result is
\* the scored dict of its candidate.
Placements ==
    {f \in [DOMAIN result -> DOMAIN scored] :
        /\ \A i, j \in DOMAIN result : f[i] = f[j] => i = j
        /\ \A i \in DOMAIN result : result[i] = scored[f[i]]}

\* C23: results with equal scores appear in the order in which the index
\* search returned their candidates: the candidates are in index rank order,
\* and the results can be placed on them so that among equal scores the
\* earlier result has the earlier candidate.
C23_StableOnTies ==
    pc = "done"
        => /\ \A i \in DOMAIN candidates :
                 candidates[i].idx = indices[RankOfCandidate(i)]
           /\ \E f \in Placements :
                 \A i, j \in DOMAIN result :
                     (i < j /\ result[i].score = result[j].score) => f[i] < f[j]

\* C23 witness: the index ranked mapping position 1 ahead of position 0,
\* both verses got the same score, and position 1 is returned first.
C23_Witness ==
    /\ pc = "done"
    /\ indices = <<1, 0>>
    /\ Len(mapping) = 2
    /\ mapping[1] # mapping[2]
    /\ Len(result) = 2
    /\ result[1].score = result[2].score
    /\ BuiltFrom(result[1], 1)
    /\ BuiltFrom(result[2], 0)


\* C24: a search that returns has called encode, index.search and predict
\* in this order, each once: encode with one text, index.search for
\* faiss_top_k neighbours, predict with one batch holding one pair per
\* candidate in candidate order; a search that raised has called a prefix
\* of this order.
C24_CapabilityCalls ==
    /\ \A i \in DOMAIN calls : i <= 3 /\ calls[i].cap = CapabilityOrder[i]
    /\ pc = "encoded" => Len(calls) = 1
    /\ pc = "searched" => Len(calls) = 2
    /\ pc = "done"
        => /\ Len(calls) = 3
           /\ Len(calls[1].arg) = 1
           /\ calls[2].arg = faiss_top_k
           /\ Len(calls[3].arg) = ValidCount
           /\ \A i \in DOMAIN calls[3].arg :
                 /\ calls[3].arg[i][1] = calls[1].arg[1]
                 /\ calls[3].arg[i][2] =
                        ReplaceNewlines(mapping[indices[RankOfCandidate(i)] + 1].text)

\* C24 witness: a finished search whose single predict batch held two
\* different pairs, the pair of the lower-ranked mapping position first.
C24_Witness ==
    /\ pc = "done"
    /\ Len(calls) = 3
    /\ indices = <<1, 0>>
    /\ Len(calls[3].arg) = 2
    /\ calls[3].arg[1] # calls[3].arg[2]
    /\ calls[3].arg[1][2] = ReplaceNewlines(mapping[2].text)


\* C25: every returned result can be traced to one candidate, different
\* results to different candidates, such that the result shows the verse of
\* that candidate's mapping position, its score is the normalized raw score
\* the reranker gave at that candidate's place in the batch, and the pair at
\* that place was built from the same mapping entry.
C25_ScoreBelongsToVerse ==
    pc = "done"
        => \E f \in [DOMAIN result -> DOMAIN candidates] :
              /\ \A i, j \in DOMAIN result : f[i] = f[j] => i = j
              /\ \A i \in DOMAIN result :
                    LET p == indices[RankOfCandidate(f[i])]
                    IN  /\ BuiltFrom(result[i], p)
                        /\ result[i].score = normalize_scores(raw_scores)[f[i]]
                        /\ pairs[f[i]][2] = ReplaceNewlines(mapping[p + 1].text)

\* C25 witness: the second candidate got the higher raw score and is
\* returned first, a different verse than the first candidate, with the
\* normalized value of its own raw score.
C25_Witness ==
    /\ pc = "done"
    /\ Len(result) = 2
    /\ raw_scores[1] < raw_scores[2]
    /\ candidates[1].entry # candidates[2].entry
    /\ BuiltFrom(result[1], candidates[2].idx)
    /\ result[1].score = Sigmoid(raw_scores[2])
    /\ result[1].score > result[2].score


\* The string t is the string s with every newline turned into a space.
NewlinesToSpaces(s, t) ==
    /\ Len(t) = Len(s)
    /\ \A i \in DOMAIN s : t[i] = IF s[i] = "\n" THEN " " ELSE s[i]

\* C26: encode is handed QUERY_PREFIX + query with newlines turned into
\* spaces; every reranker pair starts with that same string and ends with
\* its candidate's text with newlines turned into spaces; no string handed
\* to either model holds a newline.
C26_NoNewlineToModels ==
    \A c \in DOMAIN calls :
        /\ calls[c].cap = "encode"
            => /\ NewlinesToSpaces(QUERY_PREFIX \o query, calls[c].arg[1])
               /\ "\n" \notin Range(calls[c].arg[1])
        /\ calls[c].cap = "predict"
            => \A i \in DOMAIN calls[c].arg :
                  /\ calls[c].arg[i][1] = calls[1].arg[1]
                  /\ NewlinesToSpaces(candidates[i].entry.text, calls[c].arg[i][2])
                  /\ "\n" \notin Range(calls[c].arg[i][1])
                  /\ "\n" \notin Range(calls[c].arg[i][2])

\* C26 witness: a query and a verse that both hold a newline, handed to the
\* reranker as a pair without one.
C26_Witness ==
    /\ Len(calls) = 3
    /\ "\n" \in Range(query)
    /\ \E i \in DOMAIN candidates :
          /\ "\n" \in Range(candidates[i].entry.text)
          /\ calls[3].arg[i] = <<<<"q", " ", "r">>, <<"a", " ", "b">>>>

----------------------------------------------------------------------------
(* Further properties of sanitize_query *)

\* C30: sanitizing the output of sanitize_query again changes nothing, and
\* the output neither begins nor ends with a space.
C30_Idempotent ==
    fn_ret.returned
        => LET out == fn_ret.value
           IN  /\ sanitize_query(out) = out
               /\ out # <<>> => (out[1] # " " /\ out[Len(out)] # " ")

----------------------------------------------------------------------------
(* Further properties of get_verse_context *)

\* The mapping positions search can have built the result from.
PositionsOfResult ==
    {p \in 0..(Len(mapping) - 1) :
        /\ VerseKey(mapping[p + 1]) = VerseKey(ctx_result)
        /\ mapping[p + 1].text = ctx_result.text}

\* C28: for a result built from mapping position p, the call marks
\* position p as the match, and the entry with is_match = TRUE has the
\* text of the result, also when other entries share p's key.
C28_MatchIsOwnVerse ==
    (ctx_pc = "returned" /\ PositionsOfResult # {})
        => /\ ctx.idx \in PositionsOfResult
           /\ \A j \in DOMAIN ctx.out :
                 ctx.out[j].is_match => ctx.out[j].text = ctx_result.text

-----------------------------------------------------------------------------
(* Properties of the lifespan and of requests around shutdown (SpecLifecycle) *)

\* The sets of keys the pipeline dict holds during its life, in order.
LifespanKeySets ==
    {{}, RunSearchKeys, RunSearchKeys \cup {"verse_index"},
     RunSearchKeys \cup {"verse_index", "loaded"}}

\* Whenever loaded is set, the reverse index is there, it has a key for
\* every mapping entry, and each value is a position of the mapping whose
\* entry has that key.
LoadedIndexValid ==
    ("loaded" \in DOMAIN pipeline /\ pipeline.loaded)
        => /\ "verse_index" \in DOMAIN pipeline
           /\ "mapping" \in DOMAIN pipeline
           /\ \A i \in DOMAIN pipeline.mapping :
                 VerseKey(pipeline.mapping[i]) \in DOMAIN pipeline.verse_index
           /\ \A k \in DOMAIN pipeline.verse_index :
                 /\ pipeline.verse_index[k] \in 0..(Len(pipeline.mapping) - 1)
                 /\ VerseKey(pipeline.mapping[pipeline.verse_index[k] + 1]) = k

\* A step that changes the pipeline is a step of the lifespan, not of a
\* request: the four entries at once into the empty dict, then verse_index,
\* then loaded = TRUE, each leaving the entries present unchanged, and at
\* shutdown the clearing of the whole dict.
LifespanOnlyWrites ==
    (pipeline' # pipeline)
        => /\ req' = req
           /\ \/ /\ lifespan_pc = "start" /\ lifespan_pc' = "populated"
                 /\ DOMAIN pipeline = {}
                 /\ DOMAIN pipeline' = RunSearchKeys
                 /\ pipeline'.mapping = mapping
              \/ /\ lifespan_pc = "populated" /\ lifespan_pc' = "indexed"
                 /\ DOMAIN pipeline' = DOMAIN pipeline \cup {"verse_index"}
                 /\ "verse_index" \notin DOMAIN pipeline
                 /\ \A k \in DOMAIN pipeline : pipeline'[k] = pipeline[k]
              \/ /\ lifespan_pc = "indexed" /\ lifespan_pc' = "serving"
                 /\ DOMAIN pipeline' = DOMAIN pipeline \cup {"loaded"}
                 /\ "loaded" \notin DOMAIN pipeline
                 /\ pipeline'.loaded
                 /\ \A k \in DOMAIN pipeline : pipeline'[k] = pipeline[k]
              \/ /\ lifespan_pc = "serving" /\ lifespan_pc' = "stopped"
                 /\ DOMAIN pipeline' = {}

\* C27: the lifespan fills the pipeline once at startup (the four entries,
\* then verse_index built from that mapping, then loaded = TRUE) and empties
\* it at shutdown; no request step adds, removes or replaces an entry; and
\* whenever loaded is TRUE every verse_index value is a valid position of
\* the mapping whose (book_title, chapter, verse) equals its key.
C27_LifespanOwnsPipeline ==
    /\ [](DOMAIN pipeline \in LifespanKeySets /\ LoadedIndexValid)
    /\ [][LifespanOnlyWrites]_vars

\* C27 witness: the server has shut down and the pipeline is empty, after a
\* request was answered with results whose context came from the reverse
\* index of a mapping holding two entries with the same key.
C27_Witness ==
    /\ lifespan_pc = "stopped"
    /\ DOMAIN pipeline = {}
    /\ Len(mapping) = 2
    /\ VerseKey(mapping[1]) = VerseKey(mapping[2])
    /\ \E r \in DOMAIN req :
          /\ Responded(r)
          /\ req[r].response.template = "results.html"

\* C29: every answered request has status 200 and one of the three
\* templates; no exception leaves search_endpoint, also when the pipeline
\* is cleared while the request is in flight.
C29_AlwaysATemplate ==
    \A r \in DOMAIN req :
        Responded(r)
            => /\ req[r].response.status = 200
               /\ req[r].response.template
                      \in {"error.html", "no_results.html", "results.html"}

====
